---- MODULE Spec2Model ----
(***************************************************************************)
(* Hybrid lexical-semantic retrieval engine of the database service:       *)
(* BM25Encoder (services/bm25_encoder.py), VectorServices                   *)
(* (services/vector_services.py) and the payload conversion of             *)
(* VectorDocument (database/qdrant_client.py).                              *)
(*                                                                         *)
(* Texts are tuples of one-character strings.  Floating-point values that  *)
(* the code only compares are kept exact: an IDF is the pair <<x, y>>      *)
(* standing for ln(x / y), an average length is the pair <<total, n>>, a   *)
(* BM25 score is kept with its sign.  Store scores are integers in         *)
(* thousandths.                                                            *)
(***************************************************************************)
EXTENDS Integers, Sequences, FiniteSets, TLC

\* ------------------------------------------------------------------ bounds
MaxDocs == 3        \* longest document list handed to build_corpus_statistics
MaxBuilds == 1      \* direct build_corpus_statistics calls on one encoder
MaxCalls == 1       \* calls each caller of the service makes
MaxSearches == 2    \* searches one client makes one after the other
MaxRebuilds == 2    \* builds an encoder that is rebuilt goes through

\* --------------------------------------------------------------- constants
\* BM25Encoder.__init__: k1 = 1.2 and b = 0.75, as fractions
K1Num == 12
K1Den == 10
BNum == 75
BDen == 100

\* ------------------------------------------------------------------- texts
None == <<"<None>">>            \* the Python value None where a str is expected

SP == <<" ">>
W_the == <<"t", "h", "e">>
W_cat == <<"c", "a", "t">>
W_sat == <<"s", "a", "t">>
W_dog == <<"d", "o", "g">>
W_ran == <<"r", "a", "n">>
W_emu == <<"e", "m", "u">>

T_empty == <<>>
T_the_cat_sat == W_the \o SP \o W_cat \o SP \o W_sat
T_the_dog_ran == W_the \o SP \o W_dog \o SP \o W_ran
T_cat == W_cat
T_emu == W_emu
T_Cat_cat_emu == <<"C", "a", "t", ",", " ", "c", "a", "t", "!", " ">> \o W_emu

\* documents a corpus is made of, and texts handed to encode
DocValues == {T_empty, T_the_cat_sat, T_the_dog_ran, None}
QueryTexts == {T_cat, T_Cat_cat_emu, T_the_cat_sat}
\* what a search request can carry
SearchTexts == {T_cat, T_emu}
Limits == {1, 2}
Thresholds == {0, 600}
Subjects == {"<None>", "math"}
Titles == {"<None>"}
Weeks == {"<None>", "1"}
\* the optional argument doc_length: <<>> is None, <<n>> is the int n
NoLength == <<>>
DocLengths == {NoLength, <<4>>}

\* ---------------------------------------------------------------- tokenize
UpperChars == <<"A", "B", "C", "D", "E", "F", "G", "H", "I", "J", "K", "L", "M",
                "N", "O", "P", "Q", "R", "S", "T", "U", "V", "W", "X", "Y", "Z">>
LowerChars == <<"a", "b", "c", "d", "e", "f", "g", "h", "i", "j", "k", "l", "m",
                "n", "o", "p", "q", "r", "s", "t", "u", "v", "w", "x", "y", "z">>
DigitChars == <<"0", "1", "2", "3", "4", "5", "6", "7", "8", "9">>

Range(s) == {s[i] : i \in DOMAIN s}

\* str.lower() on one character
LowerChar(ch) ==
    IF \E i \in DOMAIN UpperChars : UpperChars[i] = ch
    THEN LowerChars[CHOOSE i \in DOMAIN UpperChars : UpperChars[i] = ch]
    ELSE ch

\* str.lower()
Lower(text) == [i \in DOMAIN text |-> LowerChar(text[i])]

\* the class \w of the regular expression, on lower-cased input
WordChars == Range(LowerChars) \cup Range(DigitChars) \cup {"_"}

IsWordChar(ch) == ch \in WordChars

\* re.findall(r'\b\w+\b', s): the maximal runs of word characters, in order;
\* cur is the run being read
RECURSIVE FindAll(_, _, _)
FindAll(s, i, cur) ==
    IF i > Len(s)
    THEN IF cur = <<>> THEN <<>> ELSE <<cur>>
    ELSE IF IsWordChar(s[i])
         THEN FindAll(s, i + 1, Append(cur, s[i]))
         ELSE IF cur = <<>>
              THEN FindAll(s, i + 1, <<>>)
              ELSE <<cur>> \o FindAll(s, i + 1, <<>>)

\* BM25Encoder.tokenize, for a str argument
tokenize(text) == FindAll(Lower(text), 1, <<>>)

\* tokenize on every text of the model, computed once
TokensOf ==
    [text \in (DocValues \cup QueryTexts \cup SearchTexts) \ {None} |-> tokenize(text)]

\* collections.Counter(tokens)
Counter(tokens) ==
    [t \in Range(tokens) |-> Cardinality({i \in DOMAIN tokens : tokens[i] = t})]

\* ------------------------------------------------------------ the encoder
EmptyMap == [t \in {} |-> 0]     \* the dict {}

\* BM25Encoder.__init__
NewEncoder ==
    [vocabulary |-> EmptyMap,
     doc_freqs |-> EmptyMap,
     idf |-> EmptyMap,
     corpus_size |-> 0,
     avgdl |-> <<0, 1>>,
     corpus_stats_ready |-> FALSE]

\* set(tokens) of the k-th document
UniqueTokens(documents, k) == Range(TokensOf[documents[k]])

\* doc_freqs as the loop of build_corpus_statistics leaves it
CountDocFreqs(documents) ==
    LET terms == UNION {UniqueTokens(documents, k) : k \in DOMAIN documents}
    IN  [t \in terms |->
            Cardinality({k \in DOMAIN documents : t \in UniqueTokens(documents, k)})]

\* total_doc_length
RECURSIVE TotalDocLength(_, _)
TotalDocLength(documents, k) ==
    IF k = 0 THEN 0
    ELSE Len(TokensOf[documents[k]]) + TotalDocLength(documents, k - 1)

\* every order in which a set can be iterated
RECURSIVE IterationOrders(_)
IterationOrders(S) ==
    IF S = {} THEN {<<>>}
    ELSE UNION {{<<x>> \o o : o \in IterationOrders(S \ {x})} : x \in S}

\* The orders in which doc_freqs.items() can yield the keys that are not in
\* `known`, after the first k documents: a key is inserted by the first
\* document holding it, and the keys one document inserts come in the
\* iteration order of set(tokens), which the hash seed decides.
RECURSIVE ItemOrders(_, _, _)
ItemOrders(documents, k, known) ==
    IF k = 0 THEN {<<>>}
    ELSE LET before == UNION {UniqueTokens(documents, j) : j \in 1..(k - 1)}
             fresh == (UniqueTokens(documents, k) \ before) \ known
         IN  UNION {{o \o f : f \in IterationOrders(fresh)} :
                      o \in ItemOrders(documents, k - 1, known)}

\* IdfOf with the smoothed formula log(1 + (N - df + 0.5) / (df + 0.5))
IdfOf_Smoothed(corpus_size, freq) ==
    <<(2 * (corpus_size - freq) + 1) + (2 * freq + 1), 2 * freq + 1>>

\* IdfOf with the fraction upside down: log((df + 0.5) / (N - df + 0.5))
IdfOf_Inverted(corpus_size, freq) == <<2 * freq + 1, 2 * (corpus_size - freq) + 1>>

\* math.log((corpus_size - freq + 0.5) / (freq + 0.5)), kept as <<x, y>> = ln(x/y)
IdfOf(corpus_size, freq) == <<2 * (corpus_size - freq) + 1, 2 * freq + 1>>

\* AssignIndices numbering the new keys of a build from 0, by their position
\* in this build, instead of by len(vocabulary)
RECURSIVE AssignIndices_ByPosition(_, _, _)
AssignIndices_ByPosition(vocabulary, order, k) ==
    IF k = 0 THEN vocabulary
    ELSE LET v == AssignIndices_ByPosition(vocabulary, order, k - 1)
         IN  [u \in DOMAIN v \cup {order[k]} |->
                 IF u = order[k] THEN k - 1 ELSE v[u]]

\* the vocabulary after "if token not in vocabulary: vocabulary[token] =
\* len(vocabulary)" met the first k keys of order, none of them in it before
RECURSIVE AssignIndices(_, _, _)
AssignIndices(vocabulary, order, k) ==
    IF k = 0 THEN vocabulary
    ELSE LET v == AssignIndices(vocabulary, order, k - 1)
         IN  [u \in DOMAIN v \cup {order[k]} |->
                 IF u = order[k] THEN Cardinality(DOMAIN v) ELSE v[u]]

\* BM25Encoder.build_corpus_statistics; order is the order in which
\* doc_freqs.items() yields the keys that are new to the vocabulary.
\* tokenize raises on a document that is not a str: corpus_size is assigned
\* by then, nothing else is.
build_corpus_statistics(enc, documents, order) ==
    IF \E i \in DOMAIN documents : documents[i] = None
    THEN [enc |-> [enc EXCEPT !.corpus_size = Len(documents)], raised |-> TRUE]
    ELSE LET doc_freqs == CountDocFreqs(documents)
             n == Len(documents)
         IN  [enc |->
                [vocabulary |-> AssignIndices(enc.vocabulary, order, Len(order)),
                 doc_freqs |-> doc_freqs,
                 idf |-> [t \in DOMAIN enc.idf \cup DOMAIN doc_freqs |->
                            IF t \in DOMAIN doc_freqs
                            THEN IdfOf(n, doc_freqs[t])
                            ELSE enc.idf[t]],
                 corpus_size |-> n,
                 avgdl |-> IF n > 0 THEN <<TotalDocLength(documents, n), n>>
                                    ELSE <<0, 1>>,
                 corpus_stats_ready |-> TRUE],
              raised |-> FALSE]

\* sign of ln(x / y)
SignLog(r) == IF r[1] > r[2] THEN 1 ELSE IF r[1] = r[2] THEN 0 ELSE -1

Sign(x) == IF x > 0 THEN 1 ELSE IF x = 0 THEN 0 ELSE -1

\* denominator = tf + k1 * (1 - b + b * doc_len / avgdl) with avgdl = total / n,
\* multiplied by K1Den * BDen * total (positive whenever avgdl is not 0)
DenominatorScaled(tf, doc_len, avgdl) ==
    tf * K1Den * BDen * avgdl[1]
      + K1Num * ((BDen - BNum) * avgdl[1] + BNum * doc_len * avgdl[2])

\* one score of the loop of encode: its sign, and what it was computed from
ScoreOf(enc, token, tf, doc_len) ==
    [sign |-> SignLog(enc.idf[token]) * Sign(tf * (K1Num + K1Den))
                 * Sign(DenominatorScaled(tf, doc_len, enc.avgdl)),
     idf |-> enc.idf[token],
     tf |-> tf,
     doc_len |-> doc_len]

\* encode raising on an encoder that is not ready instead of degrading
encode_RaisesUnready(enc, text, doc_length) ==
    [vector |-> EmptyMap, raised |-> ~enc.corpus_stats_ready, enc |-> enc]

\* encode without the test "if score > 0"
encode_KeepsAll(enc, text, doc_length) ==
    IF ~enc.corpus_stats_ready \/ text = None \/ enc.avgdl[1] = 0
    THEN [vector |-> EmptyMap, raised |-> FALSE, enc |-> enc]
    ELSE LET tokens == TokensOf[text]
             token_counts == Counter(tokens)
             doc_len == IF doc_length # NoLength THEN doc_length[1] ELSE Len(tokens)
             scored == {t \in DOMAIN token_counts :
                           t \in DOMAIN enc.idf /\ t \in DOMAIN enc.vocabulary}
         IN  [vector |->
                [i \in {enc.vocabulary[t] : t \in scored} |->
                    LET t == CHOOSE u \in scored : enc.vocabulary[u] = i
                    IN  ScoreOf(enc, t, token_counts[t], doc_len)],
              raised |-> FALSE,
              enc |-> enc]

\* encode entering a term of the text that it does not know into the
\* vocabulary, under the next free index
encode_LearnsTerms(enc, text, doc_length) ==
    IF ~enc.corpus_stats_ready \/ text = None
    THEN [vector |-> EmptyMap, raised |-> FALSE, enc |-> enc]
    ELSE
    LET tokens == TokensOf[text]
        token_counts == Counter(tokens)
        doc_len == IF doc_length # NoLength THEN doc_length[1] ELSE Len(tokens)
        scored == {t \in DOMAIN token_counts :
                      t \in DOMAIN enc.idf /\ t \in DOMAIN enc.vocabulary}
        zero_division ==
            \E t \in scored :
                \/ enc.avgdl[1] = 0
                \/ DenominatorScaled(token_counts[t], doc_len, enc.avgdl) = 0
        kept == {t \in scored :
                    ScoreOf(enc, t, token_counts[t], doc_len).sign > 0}
        unknown == DOMAIN token_counts \ DOMAIN enc.vocabulary
        learned ==
            IF unknown = {} THEN enc
            ELSE [enc EXCEPT !.vocabulary =
                    @ @@ ((CHOOSE t \in unknown : TRUE) :> Cardinality(DOMAIN @))]
    IN  IF zero_division
        THEN [vector |-> EmptyMap, raised |-> FALSE, enc |-> enc]
        ELSE [vector |->
                [i \in {enc.vocabulary[t] : t \in kept} |->
                    LET t == CHOOSE u \in kept : enc.vocabulary[u] = i
                    IN  ScoreOf(enc, t, token_counts[t], doc_len)],
              raised |-> FALSE,
              enc |-> learned]

\* encode with the test "if score >= 0" in place of "if score > 0"
encode_KeepsZero(enc, text, doc_length) ==
    IF ~enc.corpus_stats_ready \/ text = None
    THEN [vector |-> EmptyMap, raised |-> FALSE, enc |-> enc]
    ELSE
    LET tokens == TokensOf[text]
        token_counts == Counter(tokens)
        doc_len == IF doc_length # NoLength THEN doc_length[1] ELSE Len(tokens)
        scored == {t \in DOMAIN token_counts :
                      t \in DOMAIN enc.idf /\ t \in DOMAIN enc.vocabulary}
        zero_division ==
            \E t \in scored :
                \/ enc.avgdl[1] = 0
                \/ DenominatorScaled(token_counts[t], doc_len, enc.avgdl) = 0
        kept == {t \in scored :
                    ScoreOf(enc, t, token_counts[t], doc_len).sign >= 0}
    IN  IF zero_division
        THEN [vector |-> EmptyMap, raised |-> FALSE, enc |-> enc]
        ELSE [vector |->
                [i \in {enc.vocabulary[t] : t \in kept} |->
                    LET t == CHOOSE u \in kept : enc.vocabulary[u] = i
                    IN  ScoreOf(enc, t, token_counts[t], doc_len)],
              raised |-> FALSE,
              enc |-> enc]

\* BM25Encoder.encode
encode(enc, text, doc_length) ==
    IF ~enc.corpus_stats_ready
    THEN [vector |-> EmptyMap, raised |-> FALSE, enc |-> enc]
    ELSE IF text = None
    THEN [vector |-> EmptyMap, raised |-> FALSE, enc |-> enc]   \* except branch
    ELSE
    LET tokens == TokensOf[text]
        token_counts == Counter(tokens)
        doc_len == IF doc_length # NoLength THEN doc_length[1] ELSE Len(tokens)
        scored == {t \in DOMAIN token_counts :
                      t \in DOMAIN enc.idf /\ t \in DOMAIN enc.vocabulary}
        \* doc_len / avgdl, or the division by the denominator, divides by zero
        zero_division ==
            \E t \in scored :
                \/ enc.avgdl[1] = 0
                \/ DenominatorScaled(token_counts[t], doc_len, enc.avgdl) = 0
        kept == {t \in scored :
                    ScoreOf(enc, t, token_counts[t], doc_len).sign > 0}
    IN  IF zero_division
        THEN [vector |-> EmptyMap, raised |-> FALSE, enc |-> enc]   \* except branch
        ELSE [vector |->
                [i \in {enc.vocabulary[t] : t \in kept} |->
                    LET t == CHOOSE u \in kept : enc.vocabulary[u] = i
                    IN  ScoreOf(enc, t, token_counts[t], doc_len)],
              raised |-> FALSE,
              enc |-> enc]

\* -------------------------------------------------------------- the store
NoneStr == "<None>"             \* the Python value None among str values

\* the points the collection can hold
Points == 1..4

\* payload of a stored point, as the ingestion writes it ("content", "subject",
\* "title", "week"); point 4 is malformed, its content is not a str
StoredPayload(id) ==
    CASE id = 1 -> [content |-> T_the_cat_sat, subject |-> "math",
                    title |-> "intro", week |-> "1"]
      [] id = 2 -> [content |-> T_the_dog_ran, subject |-> "art",
                    title |-> "intro", week |-> "2"]
      [] id = 3 -> [content |-> T_empty, subject |-> "math",
                    title |-> "notes", week |-> "2"]
      [] id = 4 -> [content |-> None, subject |-> "math",
                    title |-> "notes", week |-> "1"]

\* similarity of a point to the dense query vector, in thousandths
DenseScore == [id \in Points |-> CASE id = 1 -> 900 [] id = 2 -> 700
                                   [] id = 3 -> 400 [] id = 4 -> 800]

\* constant of the store's reciprocal-rank fusion: 1 / (rank + RrfK)
RrfK == 2

Min(a, b) == IF a <= b THEN a ELSE b

Take(seq, n) == SubSeq(seq, 1, Min(n, Len(seq)))

\* truth value of an optional str argument ("if subject:")
Truthy(v) == v # NoneStr /\ v # ""

\* must_conditions: one equality condition per supplied filter value; the
\* empty set stands for filter_conditions = None
must_conditions(subject, title, week) ==
    {cond \in {<<"subject", subject>>, <<"title", title>>, <<"week", week>>} :
        Truthy(cond[2])}

\* the store's Filter(must = ...) on one point
Matches(id, filter) ==
    \A cond \in filter :
        /\ cond[1] \in DOMAIN StoredPayload(id)
        /\ StoredPayload(id)[cond[1]] = cond[2]

\* the ids of S by descending score, equal scores by ascending id
RECURSIVE Ranked(_, _)
Ranked(S, score) ==
    IF S = {} THEN <<>>
    ELSE LET best == CHOOSE x \in S :
                        \A y \in S : \/ score[x] > score[y]
                                     \/ score[x] = score[y] /\ x <= y
         IN  <<best>> \o Ranked(S \ {best}, score)

\* client.search on the dense field: the best `limit` points that pass the
\* filter and reach score_threshold
client_search(points, filter, limit, score_threshold) ==
    LET hits == {id \in points : Matches(id, filter) /\ DenseScore[id] >= score_threshold}
        ids == Take(Ranked(hits, DenseScore), limit)
    IN  [k \in DOMAIN ids |->
            [id |-> ids[k], score |-> DenseScore[ids[k]], payload |-> StoredPayload(ids[k])]]

\* how well the stored sparse vector of a point answers the query's sparse
\* vector: the number of query indices that are indices of the point's terms
SparseScore(id, sparse_vector, vocabulary) ==
    LET content == StoredPayload(id).content
        terms == IF content = None THEN {} ELSE Range(TokensOf[content])
    IN  Cardinality({t \in terms : t \in DOMAIN vocabulary
                                   /\ vocabulary[t] \in DOMAIN sparse_vector})

\* position of x in the sequence seq, from 0; -1 when absent
Position(seq, x) ==
    IF \E k \in DOMAIN seq : seq[k] = x
    THEN (CHOOSE k \in DOMAIN seq : seq[k] = x) - 1
    ELSE -1

\* the request _qdrant_hybrid_search sends with the dense leg left without
\* the filter
hybrid_query_DenseLegUnfiltered(limit, subject, title, week) ==
    LET filter_conditions == must_conditions(subject, title, week)
    IN  [prefetch |->
            [sparse |-> [using |-> "bm25_sparse_vector", limit |-> limit * 2,
                         filter |-> filter_conditions],
             dense |-> [using |-> "dense_vector", limit |-> limit * 2,
                        filter |-> {}]],
         fusion |-> "rrf",
         limit |-> limit]

\* the request _qdrant_hybrid_search sends to client.query_points: one
\* Prefetch per vector field, each with limit * 2 and the filter built from
\* subject, title and week, FusionQuery(RRF), and the caller's limit
hybrid_query(limit, subject, title, week) ==
    LET filter_conditions == must_conditions(subject, title, week)
    IN  [prefetch |->
            [sparse |-> [using |-> "bm25_sparse_vector", limit |-> limit * 2,
                         filter |-> filter_conditions],
             dense |-> [using |-> "dense_vector", limit |-> limit * 2,
                        filter |-> filter_conditions]],
         fusion |-> "rrf",
         limit |-> limit]

\* client.query_points with two prefetches and FusionQuery(RRF): each leg takes
\* its best `limit` points under its own filter, a point scores
\* sum 1 / (rank + RrfK) over the legs that hold it, the best `limit` are kept
client_query_points(points, sparse_vector, vocabulary, query) ==
    LET sparse == query.prefetch.sparse
        dense == query.prefetch.dense
        sparse_score == [id \in Points |-> SparseScore(id, sparse_vector, vocabulary)]
        sparse_leg == Take(Ranked({id \in points : /\ Matches(id, sparse.filter)
                                                   /\ sparse_score[id] > 0},
                                  sparse_score),
                           sparse.limit)
        dense_leg == Take(Ranked({id \in points : Matches(id, dense.filter)}, DenseScore),
                          dense.limit)
        LegScore(leg, id) ==
            IF Position(leg, id) < 0 THEN 0 ELSE 1000 \div (Position(leg, id) + RrfK)
        fused == [id \in Points |-> LegScore(sparse_leg, id) + LegScore(dense_leg, id)]
        ids == Take(Ranked(Range(sparse_leg) \cup Range(dense_leg), fused), query.limit)
    IN  [k \in DOMAIN ids |->
            [id |-> ids[k], score |-> fused[ids[k]], payload |-> StoredPayload(ids[k])]]

\* client.scroll, then the loop of _fetch_corpus_documents: the content of
\* every point that has one, in id order
CorpusOf(points) ==
    LET ids == Ranked({id \in points : "content" \in DOMAIN StoredPayload(id)},
                      [id \in Points |-> 0 - id])
    IN  [k \in DOMAIN ids |-> StoredPayload(ids[k]).content]

\* ---------------------------------------------------------- VectorDocument
\* payload.get(key, default)
Get(payload, key, default) ==
    IF key \in DOMAIN payload THEN payload[key] ELSE default

\* VectorDocument.from_payload, with __post_init__ filling the timestamp
from_payload(doc_id, payload) ==
    [id |-> doc_id,
     text |-> Get(payload, "text", T_empty),
     user_id |-> Get(payload, "user_id", ""),
     title |-> Get(payload, "title", NoneStr),
     source |-> Get(payload, "source", NoneStr),
     file_id |-> Get(payload, "file_id", NoneStr),
     page |-> Get(payload, "page", NoneStr),
     timestamp |-> IF Get(payload, "timestamp", NoneStr) = NoneStr
                   THEN "now" ELSE payload["timestamp"]]

\* VectorDocument.to_payload
to_payload(doc) ==
    [text |-> doc.text,
     user_id |-> doc.user_id,
     title |-> doc.title,
     file_id |-> doc.file_id,
     source |-> doc.source,
     page |-> doc.page,
     timestamp |-> doc.timestamp]

\* the points of found, from the k-th on, whose score reaches score_threshold
RECURSIVE AtLeast(_, _, _)
AtLeast(found, k, score_threshold) ==
    IF k > Len(found) THEN <<>>
    ELSE (IF found[k].score >= score_threshold THEN <<found[k]>> ELSE <<>>)
            \o AtLeast(found, k + 1, score_threshold)

\* an outcome of hybrid_search
Outcome(results, search_type) ==
    [results |-> results, total_found |-> Len(results), search_type |-> search_type]

ErrorOutcome == Outcome(<<>>, "error")

\* format_hybrid_results counting the points the fused query returned instead
\* of the results it keeps
format_hybrid_results_CountsFound(found, score_threshold) ==
    LET kept == AtLeast(found, 1, score_threshold)
    IN  [results |-> [k \in DOMAIN kept |->
                        [id |-> kept[k].id,
                         score |-> kept[k].score,
                         payload |-> to_payload(from_payload(kept[k].id, kept[k].payload))]],
         total_found |-> Len(found),
         search_type |-> "hybrid"]

\* format_hybrid_results without the test "point.score >= score_threshold"
format_hybrid_results_KeepsAll(found, score_threshold) ==
    Outcome([k \in DOMAIN found |->
                [id |-> found[k].id,
                 score |-> found[k].score,
                 payload |-> to_payload(from_payload(found[k].id, found[k].payload))]],
            "hybrid")

\* "Format results" of _qdrant_hybrid_search, for the points a fused query
\* returned
format_hybrid_results(found, score_threshold) ==
    LET kept == AtLeast(found, 1, score_threshold)
    IN  Outcome([k \in DOMAIN kept |->
                    [id |-> kept[k].id,
                     score |-> kept[k].score,
                     payload |-> to_payload(from_payload(kept[k].id, kept[k].payload))]],
                "hybrid")

\* the query_filter argument of client.search, line 253: None when no filter
\* is given; models.Filter(**filter_conditions) otherwise, which raises
\* TypeError for the Filter object _dense_only_search passes, before
\* client.search is called
filter_unpacks(filter) == filter = {}

\* QdrantConfig.search_similar: a filter that is not None is a Filter object,
\* which models.Filter(**filter_conditions) cannot unpack (TypeError); that
\* and every exception of client.search are caught and give []
search_similar(points, filter, limit, score_threshold, store_raises) ==
    IF ~filter_unpacks(filter) \/ store_raises
    THEN <<>>
    ELSE LET found == client_search(points, filter, limit, score_threshold)
         IN  [k \in DOMAIN found |->
                [document |-> from_payload(found[k].id, found[k].payload),
                 score |-> found[k].score,
                 id |-> found[k].id]]

\* _dense_only_search tagging its outcome as the fused query does
dense_only_search_TagsHybrid(points, limit, score_threshold, subject, title, week, store_raises) ==
    LET filter_conditions == must_conditions(subject, title, week)
        results == search_similar(points, filter_conditions, limit, score_threshold,
                                  store_raises)
    IN  Outcome([k \in DOMAIN results |->
                    [id |-> results[k].id,
                     score |-> results[k].score,
                     payload |-> to_payload(results[k].document)]],
                "hybrid")

\* _dense_only_search
dense_only_search(points, limit, score_threshold, subject, title, week, store_raises) ==
    LET filter_conditions == must_conditions(subject, title, week)
        results == search_similar(points, filter_conditions, limit, score_threshold,
                                  store_raises)
    IN  Outcome([k \in DOMAIN results |->
                    [id |-> results[k].id,
                     score |-> results[k].score,
                     payload |-> to_payload(results[k].document)]],
                "dense_only")

\* ------------------------------------------------------------------ state
\* callers of hybrid_search (the /hybrid-search endpoint) and callers of
\* _initialize_bm25_corpus alone (the /debug/bm25-status endpoint); each call
\* is a thread of its own
Searchers == {"s1"}
Initializers == {"d1"}
Callers == Searchers \cup Initializers

VARIABLES
    bm25_encoder,        \* VectorServices.bm25_encoder, or an encoder used directly
    corpus_initialized,  \* VectorServices._corpus_initialized
    store,               \* the points the collection holds
    call,                \* per caller: the position and the locals of its call
    calls_made,          \* per caller: the calls it has started
    corpus,              \* the documents of the latest build that completed
    last,                \* the latest direct call on the encoder and its result
    builds               \* direct build_corpus_statistics calls made so far

vars == <<bm25_encoder, corpus_initialized, store, call, calls_made, corpus, last, builds>>

service_vars == <<corpus_initialized, store, call, calls_made>>

DocLists == UNION {[1..n -> DocValues] : n \in 0..MaxDocs}

NoOutcome == Outcome(<<>>, "none")

\* no fused request sent yet
NoQuery ==
    [prefetch |-> [sparse |-> [using |-> "none", limit |-> 0, filter |-> {}],
                   dense |-> [using |-> "none", limit |-> 0, filter |-> {}]],
     fusion |-> "none",
     limit |-> 0]

\* a caller that is not in a call
IdleCall ==
    [pc |-> "idle", kind |-> "none",
     query_text |-> T_empty, limit |-> 0, score_threshold |-> 0,
     subject |-> NoneStr, title |-> NoneStr, week |-> NoneStr,
     dense_vector |-> "unset",     \* what get_embedding gave
     saw_initialized |-> "unset",  \* what line 19 read from _corpus_initialized
     documents |-> <<>>,           \* what _fetch_corpus_documents returned
     route |-> "unset",            \* the branch taken at lines 124-137
     sparse_vector |-> EmptyMap,
     store_raised |-> FALSE,       \* a store query of this call raised
     init_failed |-> FALSE,        \* the scroll or the build of this call raised
     earlier |-> "none",           \* how the latest earlier initialization of
                                   \* this caller ended, see EndOfInit
     embeds |-> 0, fetches |-> 0, service_builds |-> 0,
     fused_queries |-> 0, dense_queries |-> 0,
     store_searches |-> 0,         \* client.search requests that reached the store
     fused_query |-> NoQuery,      \* the request given to client.query_points
     http_status |-> 0,            \* status of the endpoint's response, 0: none yet
     outcome |-> NoOutcome]

Init ==
    /\ bm25_encoder = NewEncoder
    /\ corpus_initialized = FALSE
    /\ store \in SUBSET Points
    /\ call = [c \in Callers |-> IdleCall]
    /\ calls_made = [c \in Callers |-> 0]
    /\ corpus = <<>>
    /\ last = [op |-> "none"]
    /\ builds = 0

\* ------------------------------------------------- direct use of an encoder
\* an encoder of its own, with no collection behind it
InitEncoder ==
    /\ Init
    /\ store = {}

\* the key orders of a build; a build that raises never reaches them
OrdersFor(documents) ==
    IF \E k \in DOMAIN documents : documents[k] = None
    THEN {<<>>}
    ELSE ItemOrders(documents, Len(documents), DOMAIN bm25_encoder.vocabulary)

\* a caller runs encoder.build_corpus_statistics(documents); the builds come
\* before the encodes, which leave the encoder as it is
DirectBuild(documents) ==
    /\ builds < MaxBuilds
    /\ last.op # "encode"
    /\ \E order \in OrdersFor(documents) :
          LET r == build_corpus_statistics(bm25_encoder, documents, order)
          IN  /\ bm25_encoder' = r.enc
              /\ corpus' = IF r.raised THEN corpus ELSE documents
              /\ last' = [op |-> "build", ndocs |-> Len(documents), raised |-> r.raised]
    /\ builds' = builds + 1
    /\ UNCHANGED service_vars

\* a caller runs encoder.encode(text, doc_length)
DirectEncode(text, doc_length) ==
    /\ LET r == encode(bm25_encoder, text, doc_length)
       IN  /\ bm25_encoder' = r.enc
           /\ last' = [op |-> "encode", text |-> text, doc_length |-> doc_length,
                       vector |-> r.vector, raised |-> r.raised]
    /\ UNCHANGED <<builds, corpus, service_vars>>

NextEncoder ==
    \/ \E documents \in DocLists : DirectBuild(documents)
    \/ \E text \in QueryTexts, doc_length \in DocLengths : DirectEncode(text, doc_length)

SpecEncoder == InitEncoder /\ [][NextEncoder]_vars

\* ------------------------------------------------ an encoder that is rebuilt
\* the document lists of the builds of an encoder that is built more than once
RebuildValues == {T_the_cat_sat, T_the_dog_ran}
RebuildLists == UNION {[1..n -> RebuildValues] : n \in 0..MaxDocs}

\* a caller runs encoder.build_corpus_statistics(documents) on an encoder
\* that may have been built before
Rebuild(documents) ==
    /\ builds < MaxRebuilds
    /\ last.op # "encode"
    /\ \E order \in OrdersFor(documents) :
          LET r == build_corpus_statistics(bm25_encoder, documents, order)
          IN  /\ bm25_encoder' = r.enc
              /\ corpus' = IF r.raised THEN corpus ELSE documents
              /\ last' = [op |-> "build", ndocs |-> Len(documents), raised |-> r.raised]
    /\ builds' = builds + 1
    /\ UNCHANGED service_vars

NextRebuild ==
    \/ \E documents \in RebuildLists : Rebuild(documents)
    \/ \E text \in QueryTexts, doc_length \in DocLengths : DirectEncode(text, doc_length)

SpecRebuild == InitEncoder /\ [][NextRebuild]_vars

\* ------------------------------------------------------- VectorServices
Set(c, fields) == call' = [call EXCEPT ![c] = fields @@ call[c]]

\* where a call goes once _initialize_bm25_corpus has returned
AfterInit(c) == IF call[c].kind = "search" THEN "route" ELSE "done"

\* a request reaches hybrid_search
StartSearch(c, query_text, limit, score_threshold, subject, title, week) ==
    /\ c \in Searchers
    /\ call[c].pc = "idle"
    /\ calls_made[c] < MaxCalls
    /\ calls_made' = [calls_made EXCEPT ![c] = @ + 1]
    /\ call' = [call EXCEPT ![c] =
                  [pc |-> "embed", kind |-> "search", query_text |-> query_text,
                   limit |-> limit, score_threshold |-> score_threshold,
                   subject |-> subject, title |-> title, week |-> week,
                   earlier |-> call[c].earlier] @@ IdleCall]
    /\ UNCHANGED <<bm25_encoder, corpus_initialized, store, corpus, last, builds>>

\* the client that got the answer of a search sends its next request
SearchAgain(c, query_text, limit, score_threshold, subject, title, week) ==
    /\ c \in Searchers
    /\ call[c].pc = "idle"
    /\ calls_made[c] >= 1
    /\ calls_made[c] < MaxSearches
    /\ calls_made' = [calls_made EXCEPT ![c] = @ + 1]
    /\ call' = [call EXCEPT ![c] =
                  [pc |-> "embed", kind |-> "search", query_text |-> query_text,
                   limit |-> limit, score_threshold |-> score_threshold,
                   subject |-> subject, title |-> title, week |-> week,
                   earlier |-> call[c].earlier] @@ IdleCall]
    /\ UNCHANGED <<bm25_encoder, corpus_initialized, store, corpus, last, builds>>

\* a request reaches _initialize_bm25_corpus without a search
StartInit(c) ==
    /\ c \in Initializers
    /\ call[c].pc = "idle"
    /\ calls_made[c] < MaxCalls
    /\ calls_made' = [calls_made EXCEPT ![c] = @ + 1]
    /\ call' = [call EXCEPT ![c] = [pc |-> "init", kind |-> "init",
                                     earlier |-> call[c].earlier] @@ IdleCall]
    /\ UNCHANGED <<bm25_encoder, corpus_initialized, store, corpus, last, builds>>

\* GetEmbedding testing "dense_vector is None" instead of "not dense_vector"
GetEmbedding_NoneOnly(c, answer) ==
    /\ call[c].pc = "embed"
    /\ IF answer # "raises"
       THEN Set(c, [pc |-> "init", dense_vector |-> answer,
                    embeds |-> call[c].embeds + 1])
       ELSE Set(c, [pc |-> "done", dense_vector |-> answer,
                    embeds |-> call[c].embeds + 1, outcome |-> ErrorOutcome])
    /\ UNCHANGED <<bm25_encoder, corpus_initialized, store, calls_made, corpus, last, builds>>

\* hybrid_search, lines 115-118: get_embedding answers with a vector, with
\* an empty list, or fails and gives None
GetEmbedding(c, answer) ==
    /\ call[c].pc = "embed"
    /\ IF answer = "vector"
       THEN Set(c, [pc |-> "init", dense_vector |-> answer,
                    embeds |-> call[c].embeds + 1])
       ELSE Set(c, [pc |-> "done", dense_vector |-> answer,
                    embeds |-> call[c].embeds + 1, outcome |-> ErrorOutcome])
    /\ UNCHANGED <<bm25_encoder, corpus_initialized, store, calls_made, corpus, last, builds>>

\* InitCheck without the early return: the initialization runs on every call
InitCheck_NoSkip(c) ==
    /\ call[c].pc = "init"
    /\ Set(c, [pc |-> "fetch",
               saw_initialized |-> IF corpus_initialized THEN "yes" ELSE "no"])
    /\ UNCHANGED <<bm25_encoder, corpus_initialized, store, calls_made, corpus, last, builds>>

\* _initialize_bm25_corpus, lines 19-21: the check of the flag
InitCheck(c) ==
    /\ call[c].pc = "init"
    /\ IF corpus_initialized
       THEN Set(c, [pc |-> AfterInit(c), saw_initialized |-> "yes"])
       ELSE Set(c, [pc |-> "fetch", saw_initialized |-> "no"])
    /\ UNCHANGED <<bm25_encoder, corpus_initialized, store, calls_made, corpus, last, builds>>

\* _fetch_corpus_documents: the scroll answers, or raises and [] is returned
Fetch(c, scroll_raises) ==
    /\ call[c].pc = "fetch"
    /\ Set(c, [pc |-> "build", fetches |-> call[c].fetches + 1,
               init_failed |-> scroll_raises,
               documents |-> IF scroll_raises THEN <<>> ELSE CorpusOf(store)])
    /\ UNCHANGED <<bm25_encoder, corpus_initialized, store, calls_made, corpus, last, builds>>

\* BuildCorpus setting the flag before the build, so that it is set also when
\* the build raises
BuildCorpus_FlagFirst(c) ==
    /\ call[c].pc = "build"
    /\ IF call[c].documents # <<>>
       THEN \E order \in OrdersFor(call[c].documents) :
              LET r == build_corpus_statistics(bm25_encoder, call[c].documents, order)
              IN  /\ bm25_encoder' = r.enc
                  /\ corpus_initialized' = TRUE
                  /\ corpus' = IF r.raised THEN corpus ELSE call[c].documents
                  /\ Set(c, [pc |-> AfterInit(c),
                             init_failed |-> r.raised,
                             service_builds |-> call[c].service_builds + 1])
       ELSE /\ Set(c, [pc |-> AfterInit(c)])
            /\ UNCHANGED <<bm25_encoder, corpus_initialized, corpus>>
    /\ UNCHANGED <<store, calls_made, last, builds>>

\* _initialize_bm25_corpus, lines 29-46: build from the fetched documents
\* and set the flag; an exception of the build is logged and swallowed
BuildCorpus(c) ==
    /\ call[c].pc = "build"
    /\ IF call[c].documents # <<>>
       THEN \E order \in OrdersFor(call[c].documents) :
              LET r == build_corpus_statistics(bm25_encoder, call[c].documents, order)
              IN  /\ bm25_encoder' = r.enc
                  /\ corpus_initialized' = (corpus_initialized \/ ~r.raised)
                  /\ corpus' = IF r.raised THEN corpus ELSE call[c].documents
                  /\ Set(c, [pc |-> AfterInit(c),
                             init_failed |-> r.raised,
                             service_builds |-> call[c].service_builds + 1])
       ELSE /\ Set(c, [pc |-> AfterInit(c)])
            /\ UNCHANGED <<bm25_encoder, corpus_initialized, corpus>>
    /\ UNCHANGED <<store, calls_made, last, builds>>

\* Route without the test "if sparse_vector": an empty sparse vector goes
\* to the fused query
Route_FusedOnEmpty(c) ==
    /\ call[c].pc = "route"
    /\ IF corpus_initialized /\ bm25_encoder.corpus_stats_ready
       THEN LET sparse_vector == encode(bm25_encoder, call[c].query_text, NoLength).vector
            IN  Set(c, [pc |-> "fused",
                        route |-> IF sparse_vector # EmptyMap THEN "hybrid"
                                                              ELSE "empty_sparse",
                        sparse_vector |-> sparse_vector])
       ELSE Set(c, [pc |-> "dense", route |-> "not_ready"])
    /\ UNCHANGED <<bm25_encoder, corpus_initialized, store, calls_made, corpus, last, builds>>

\* hybrid_search, lines 124-137: hybrid when the statistics are ready and the
\* query has a sparse vector, dense-only otherwise
Route(c) ==
    /\ call[c].pc = "route"
    /\ IF corpus_initialized /\ bm25_encoder.corpus_stats_ready
       THEN LET encoded == encode(bm25_encoder, call[c].query_text, NoLength)
                sparse_vector == encoded.vector
            IN  /\ bm25_encoder' = encoded.enc
                /\ IF sparse_vector # EmptyMap
                   THEN Set(c, [pc |-> "fused", route |-> "hybrid",
                                sparse_vector |-> sparse_vector])
                   ELSE Set(c, [pc |-> "dense", route |-> "empty_sparse"])
       ELSE /\ Set(c, [pc |-> "dense", route |-> "not_ready"])
            /\ UNCHANGED bm25_encoder
    /\ UNCHANGED <<corpus_initialized, store, calls_made, corpus, last, builds>>

\* _qdrant_hybrid_search issuing the fused query a second time when the
\* first one raised
FusedQuery_Retries(c, store_raises) ==
    /\ call[c].pc = "fused"
    /\ LET query == hybrid_query(call[c].limit, call[c].subject, call[c].title,
                                 call[c].week)
       IN  IF store_raises
           THEN Set(c, [pc |-> IF call[c].fused_queries = 0 THEN "fused" ELSE "dense",
                        store_raised |-> TRUE,
                        fused_query |-> query,
                        fused_queries |-> call[c].fused_queries + 1])
           ELSE LET found == client_query_points(store, call[c].sparse_vector,
                                bm25_encoder.vocabulary, query)
                IN  Set(c, [pc |-> "done",
                            fused_query |-> query,
                            fused_queries |-> call[c].fused_queries + 1,
                            outcome |-> format_hybrid_results(found, call[c].score_threshold)])
    /\ UNCHANGED <<bm25_encoder, corpus_initialized, store, calls_made, corpus, last, builds>>

\* _qdrant_hybrid_search answering a raising fused query with the error
\* outcome instead of the dense-only query
FusedQuery_ErrorOnFailure(c, store_raises) ==
    /\ call[c].pc = "fused"
    /\ LET query == hybrid_query(call[c].limit, call[c].subject, call[c].title,
                                 call[c].week)
       IN  IF store_raises
           THEN Set(c, [pc |-> "done", store_raised |-> TRUE,
                        fused_query |-> query,
                        fused_queries |-> call[c].fused_queries + 1,
                        outcome |-> ErrorOutcome])
           ELSE LET found == client_query_points(store, call[c].sparse_vector,
                                bm25_encoder.vocabulary, query)
                IN  Set(c, [pc |-> "done",
                            fused_query |-> query,
                            fused_queries |-> call[c].fused_queries + 1,
                            outcome |-> format_hybrid_results(found, call[c].score_threshold)])
    /\ UNCHANGED <<bm25_encoder, corpus_initialized, store, calls_made, corpus, last, builds>>

\* _qdrant_hybrid_search: the fused query answers and its points are
\* formatted, or it raises and the call goes on to _dense_only_search
FusedQuery(c, store_raises) ==
    /\ call[c].pc = "fused"
    /\ LET query == hybrid_query(call[c].limit, call[c].subject, call[c].title,
                                 call[c].week)
       IN  IF store_raises
           THEN Set(c, [pc |-> "dense", store_raised |-> TRUE,
                        fused_query |-> query,
                        fused_queries |-> call[c].fused_queries + 1])
           ELSE LET found == client_query_points(store, call[c].sparse_vector,
                                bm25_encoder.vocabulary, query)
                IN  Set(c, [pc |-> "done",
                            fused_query |-> query,
                            fused_queries |-> call[c].fused_queries + 1,
                            outcome |-> format_hybrid_results(found, call[c].score_threshold)])
    /\ UNCHANGED <<bm25_encoder, corpus_initialized, store, calls_made, corpus, last, builds>>

\* the number of client.search requests a dense-only query of the call of c
\* sends to the store
StoreSearches(c) ==
    IF filter_unpacks(must_conditions(call[c].subject, call[c].title, call[c].week))
    THEN 1 ELSE 0

\* _dense_only_search with neither search_similar nor itself catching the
\* exception of the store: it propagates to the caller of hybrid_search
DenseQuery_Uncaught(c, store_raises) ==
    /\ call[c].pc = "dense"
    /\ IF store_raises
       THEN Set(c, [pc |-> "raised", store_raised |-> TRUE,
                    dense_queries |-> call[c].dense_queries + 1,
                    store_searches |-> call[c].store_searches + StoreSearches(c)])
       ELSE Set(c, [pc |-> "done",
                    dense_queries |-> call[c].dense_queries + 1,
                    store_searches |-> call[c].store_searches + StoreSearches(c),
                    outcome |-> dense_only_search(store, call[c].limit,
                                   call[c].score_threshold, call[c].subject,
                                   call[c].title, call[c].week, store_raises)])
    /\ UNCHANGED <<bm25_encoder, corpus_initialized, store, calls_made, corpus, last, builds>>

\* _dense_only_search
DenseQuery(c, store_raises) ==
    /\ call[c].pc = "dense"
    /\ Set(c, [pc |-> "done",
               store_raised |-> (call[c].store_raised \/ store_raises),
               dense_queries |-> call[c].dense_queries + 1,
               store_searches |-> call[c].store_searches + StoreSearches(c),
               outcome |-> dense_only_search(store, call[c].limit,
                              call[c].score_threshold, call[c].subject,
                              call[c].title, call[c].week, store_raises)])
    /\ UNCHANGED <<bm25_encoder, corpus_initialized, store, calls_made, corpus, last, builds>>

\* how _initialize_bm25_corpus ended in the call of c: it was not reached
\* (the earlier end stays), the scroll or the build raised, the scroll gave
\* no document, or the flag was set (by this call or before it)
EndOfInit(c) ==
    IF call[c].saw_initialized = "unset" THEN call[c].earlier
    ELSE IF call[c].init_failed THEN "failed"
    ELSE IF call[c].saw_initialized = "no" /\ call[c].documents = <<>> THEN "empty"
    ELSE "initialized"

\* the call returns to its caller
Return(c) ==
    /\ call[c].pc = "done"
    /\ call' = [call EXCEPT ![c] = [earlier |-> EndOfInit(c)] @@ IdleCall]
    /\ UNCHANGED <<bm25_encoder, corpus_initialized, store, calls_made, corpus, last, builds>>

Next ==
    \/ \E c \in Callers, query_text \in SearchTexts, limit \in Limits,
          score_threshold \in Thresholds, subject \in Subjects,
          title \in Titles, week \in Weeks :
            StartSearch(c, query_text, limit, score_threshold, subject, title, week)
    \/ \E c \in Callers : StartInit(c)
    \/ \E c \in Callers, answer \in {"vector", "empty", "raises"} : GetEmbedding(c, answer)
    \/ \E c \in Callers : InitCheck(c)
    \/ \E c \in Callers, scroll_raises \in BOOLEAN : Fetch(c, scroll_raises)
    \/ \E c \in Callers : BuildCorpus(c)
    \/ \E c \in Callers : Route(c)
    \/ \E c \in Callers, store_raises \in BOOLEAN : FusedQuery(c, store_raises)
    \/ \E c \in Callers, store_raises \in BOOLEAN : DenseQuery(c, store_raises)
    \/ \E c \in Callers : Return(c)

Spec == Init /\ [][Next]_vars

\* ------------------------------------------- one client, search after search
NextRetry ==
    \/ \E c \in Searchers, query_text \in SearchTexts, limit \in Limits,
          score_threshold \in Thresholds, subject \in Subjects,
          title \in Titles, week \in Weeks :
            \/ StartSearch(c, query_text, limit, score_threshold, subject, title, week)
            \/ SearchAgain(c, query_text, limit, score_threshold, subject, title, week)
    \/ \E c \in Searchers, answer \in {"vector", "empty", "raises"} : GetEmbedding(c, answer)
    \/ \E c \in Searchers : InitCheck(c)
    \/ \E c \in Searchers, scroll_raises \in BOOLEAN : Fetch(c, scroll_raises)
    \/ \E c \in Searchers : BuildCorpus(c)
    \/ \E c \in Searchers : Route(c)
    \/ \E c \in Searchers, store_raises \in BOOLEAN : FusedQuery(c, store_raises)
    \/ \E c \in Searchers, store_raises \in BOOLEAN : DenseQuery(c, store_raises)
    \/ \E c \in Searchers : Return(c)

SpecRetry == Init /\ [][NextRetry]_vars

\* ------------------------------- the endpoint /hybrid-search-with-vectors
\* the vocabulary of the encoder that computed the stored and the requested
\* sparse vectors: the terms of the stored documents in their order of
\* first appearance
IngestVocabulary ==
    (W_the :> 0) @@ (W_cat :> 1) @@ (W_sat :> 2) @@ (W_dog :> 3) @@ (W_ran :> 4)

\* the sparse vectors of the requests: none, the one of "cat", the one of
\* "dog ran"
RequestSparseVectors == {EmptyMap, (1 :> 1), (3 :> 1) @@ (4 :> 1)}

\* str(point.id)
Str(id) == CASE id = 1 -> "1" [] id = 2 -> "2" [] id = 3 -> "3" [] id = 4 -> "4"

\* the request _perform_hybrid_search_with_vectors sends to
\* client.query_points: filter_obj on both Prefetch legs, limit * 2 each,
\* FusionQuery(RRF), the request's limit
vectors_query(limit, subject, title, week) ==
    LET filter_obj == must_conditions(subject, title, week)
    IN  [prefetch |->
            [sparse |-> [using |-> "bm25_sparse_vector", limit |-> limit * 2,
                         filter |-> filter_obj],
             dense |-> [using |-> "dense_vector", limit |-> limit * 2,
                        filter |-> filter_obj]],
         fusion |-> "rrf",
         limit |-> limit]

\* _perform_hybrid_search_with_vectors: the points of the fused query that
\* reach score_threshold, with str(point.id) and the stored payload as it
\* is; an exception of the store is logged and raised again
perform_hybrid_search_with_vectors(points, sparse_vector, limit, score_threshold, subject, title, week, store_raises) ==
    IF store_raises
    THEN [raised |-> TRUE, results |-> NoOutcome]
    ELSE LET found == client_query_points(points, sparse_vector, IngestVocabulary,
                                          vectors_query(limit, subject, title, week))
             kept == AtLeast(found, 1, score_threshold)
         IN  [raised |-> FALSE,
              results |-> Outcome([k \in DOMAIN kept |->
                                      [id |-> Str(kept[k].id),
                                       score |-> kept[k].score,
                                       payload |-> kept[k].payload]],
                                  "hybrid")]

\* hybrid_search_with_vectors: the fused query when the request has a sparse
\* vector, else search_similar called without filter_conditions; an
\* exception becomes HTTP 500
hybrid_search_with_vectors(points, sparse_vector, limit, score_threshold, subject, title, week, store_raises) ==
    LET has_sparse == sparse_vector # EmptyMap
    IN  IF has_sparse
        THEN LET r == perform_hybrid_search_with_vectors(points, sparse_vector, limit,
                          score_threshold, subject, title, week, store_raises)
             IN  IF r.raised
                 THEN [status |-> 500, body |-> NoOutcome]
                 ELSE [status |-> 200, body |-> r.results]
        ELSE LET results == search_similar(points, {}, limit, score_threshold,
                                           store_raises)
             IN  [status |-> 200,
                  body |-> Outcome([k \in DOMAIN results |->
                                      [id |-> results[k].id,
                                       score |-> results[k].score,
                                       payload |-> to_payload(results[k].document)]],
                                   "dense_only")]

\* a client posts to /hybrid-search-with-vectors and gets its response
HybridSearchWithVectors(c, sparse_vector, limit, score_threshold, subject, title, week, store_raises) ==
    /\ c \in Searchers
    /\ call[c].pc = "idle"
    /\ calls_made[c] < MaxCalls
    /\ calls_made' = [calls_made EXCEPT ![c] = @ + 1]
    /\ LET response == hybrid_search_with_vectors(store, sparse_vector, limit,
                           score_threshold, subject, title, week, store_raises)
       IN  call' = [call EXCEPT ![c] =
                      [pc |-> "done", kind |-> "vectors",
                       sparse_vector |-> sparse_vector,
                       limit |-> limit, score_threshold |-> score_threshold,
                       subject |-> subject, title |-> title, week |-> week,
                       store_raised |-> store_raises,
                       http_status |-> response.status,
                       outcome |-> response.body,
                       earlier |-> call[c].earlier] @@ IdleCall]
    /\ UNCHANGED <<bm25_encoder, corpus_initialized, store, corpus, last, builds>>

NextVectors ==
    \/ \E c \in Searchers, sparse_vector \in RequestSparseVectors, limit \in Limits,
          score_threshold \in Thresholds, subject \in Subjects,
          title \in Titles, week \in Weeks, store_raises \in BOOLEAN :
            HybridSearchWithVectors(c, sparse_vector, limit, score_threshold,
                                    subject, title, week, store_raises)
    \/ \E c \in Searchers : Return(c)

SpecVectors == Init /\ [][NextVectors]_vars

\* ------------------------------------- searches over a store that changes
\* the /upsert endpoint writing the points of one request with an automatic
\* invalidation of the corpus statistics
Upsert_Invalidates(ids, store_raises) ==
    /\ store' = IF store_raises THEN store ELSE store \cup ids
    /\ corpus_initialized' = (corpus_initialized /\ store_raises)
    /\ UNCHANGED <<bm25_encoder, call, calls_made, corpus, last, builds>>

\* the /upsert endpoint: client.upsert writes the points of the request, or
\* raises and the store is as before (HTTP 500)
Upsert(ids, store_raises) ==
    /\ store' = IF store_raises THEN store ELSE store \cup ids
    /\ UNCHANGED <<bm25_encoder, corpus_initialized, call, calls_made, corpus, last, builds>>

\* the /delete endpoint: client.delete removes the points of the request, or
\* raises and the store is as before (HTTP 500)
Delete(ids, store_raises) ==
    /\ store' = IF store_raises THEN store ELSE store \ ids
    /\ UNCHANGED <<bm25_encoder, corpus_initialized, call, calls_made, corpus, last, builds>>

\* the requests of the clients that change the store
PointSets == {{1}, {2, 3}}

\* a service over a store that holds nothing or three documents
InitStale ==
    /\ Init
    /\ store \in {{}, {1, 2, 3}}

\* the searches made over the changing store
StaleText == T_cat
StaleLimit == 2
StaleThreshold == 0

NextStale ==
    \/ \E c \in Callers :
            \/ StartSearch(c, StaleText, StaleLimit, StaleThreshold,
                           NoneStr, NoneStr, NoneStr)
            \/ SearchAgain(c, StaleText, StaleLimit, StaleThreshold,
                           NoneStr, NoneStr, NoneStr)
    \/ \E c \in Callers : StartInit(c)
    \/ \E c \in Callers, answer \in {"vector", "raises"} : GetEmbedding(c, answer)
    \/ \E c \in Callers : InitCheck(c)
    \/ \E c \in Callers, scroll_raises \in BOOLEAN : Fetch(c, scroll_raises)
    \/ \E c \in Callers : BuildCorpus(c)
    \/ \E c \in Callers : Route(c)
    \/ \E c \in Callers, store_raises \in BOOLEAN : FusedQuery(c, store_raises)
    \/ \E c \in Callers, store_raises \in BOOLEAN : DenseQuery(c, store_raises)
    \/ \E c \in Callers : Return(c)
    \/ \E ids \in PointSets, store_raises \in BOOLEAN : Upsert(ids, store_raises)
    \/ \E ids \in PointSets, store_raises \in BOOLEAN : Delete(ids, store_raises)

SpecStale == InitStale /\ [][NextStale]_vars

\* ================================================================= claims
\* _initialize_bm25_corpus has returned in the call of c
InitReturned(c) ==
    /\ call[c].saw_initialized # "unset"
    /\ call[c].pc \in {"route", "fused", "dense", "done"}

\* the call of c found the flag unset and fetched a corpus that builds
RanInitialization(c) ==
    /\ InitReturned(c)
    /\ call[c].saw_initialized = "no"
    /\ call[c].documents # <<>>
    /\ \A k \in DOMAIN call[c].documents : call[c].documents[k] # None

\* the points a dense query of the call of c matches at or above its threshold
DenseMatches(c) ==
    {id \in store :
        /\ Matches(id, must_conditions(call[c].subject, call[c].title, call[c].week))
        /\ DenseScore[id] >= call[c].score_threshold}

\* C1: when two callers run _initialize_bm25_corpus concurrently on a service
\* that is not initialized, over a non-empty store, exactly one
\* build_corpus_statistics executes in total and both find the statistics
\* ready once their call has returned.
C1_ExactlyOneBuild ==
    (\A c \in Callers : RanInitialization(c))
        => /\ call["s1"].service_builds + call["d1"].service_builds = 1
           /\ corpus_initialized
           /\ bm25_encoder.corpus_stats_ready

\* C2: when the embedding request fails (raises, times out, or gives no
\* vector) hybrid_search returns at once the error outcome with no results,
\* having neither initialized the corpus statistics nor queried the store.
C2_EmbeddingFailureIsError ==
    \A c \in Callers :
        call[c].dense_vector \in {"empty", "raises"}
            => /\ call[c].pc = "done"
               /\ call[c].outcome.search_type = "error"
               /\ call[c].outcome.results = <<>>
               /\ call[c].saw_initialized = "unset"
               /\ call[c].fetches = 0
               /\ call[c].service_builds = 0
               /\ call[c].fused_queries = 0
               /\ call[c].dense_queries = 0

C2_Witness ==
    \E c \in Callers :
        /\ call[c].dense_vector = "empty"
        /\ call[c].pc = "done"
        /\ call[c].outcome = ErrorOutcome
        /\ store # {}
        /\ ~corpus_initialized

\* C3: whenever the store raises during a search, on the fused query or on
\* the dense-only query, hybrid_search returns the error outcome with an
\* empty result list.
C3_StoreFailureIsError ==
    \A c \in Callers :
        (call[c].pc = "done" /\ call[c].store_raised)
            => /\ call[c].outcome.search_type = "error"
               /\ call[c].outcome.results = <<>>

\* C4: when the encoder is not ready at the time of a search and the
\* embedding succeeds, hybrid_search returns dense_only, never error, and
\* its results are non-empty whenever the store holds points that match the
\* dense query at or above the threshold (the store answering the query).
C4_NotReadyIsDenseOnly ==
    \A c \in Callers :
        (call[c].pc = "done" /\ call[c].route = "not_ready" /\ ~call[c].store_raised)
            => /\ call[c].outcome.search_type = "dense_only"
               /\ (DenseMatches(c) # {} => call[c].outcome.results # <<>>)

\* C5: when the statistics are ready but encode(query) is the empty sparse
\* vector, hybrid_search never issues the fused query: it issues the
\* dense-only query and returns dense_only.
C5_EmptySparseIsDenseOnly ==
    \A c \in Callers :
        call[c].route = "empty_sparse"
            => /\ call[c].fused_queries = 0
               /\ call[c].pc \in {"dense", "done"}
               /\ (call[c].pc = "done"
                     => /\ call[c].dense_queries = 1
                        /\ call[c].outcome.search_type = "dense_only")

C5_Witness ==
    \E c \in Callers :
        /\ call[c].route = "empty_sparse"
        /\ call[c].query_text = T_emu
        /\ call[c].pc = "done"
        /\ call[c].outcome.search_type = "dense_only"
        /\ bm25_encoder.corpus_stats_ready
        /\ DOMAIN bm25_encoder.vocabulary # {}

\* a step that is a direct encode call: DirectEncode is the one action that
\* leaves op = "encode" in last, and no build follows an encode
EncodeStep == last'.op = "encode"

\* C6: for every text, encode on an encoder whose readiness flag is false
\* returns the empty sparse vector, raises nothing and leaves the encoder
\* state unchanged.
C6_EncodeNotReady ==
    [][(EncodeStep /\ ~bm25_encoder.corpus_stats_ready)
          => /\ last'.vector = EmptyMap
             /\ ~last'.raised
             /\ bm25_encoder' = bm25_encoder]_vars

C6_Witness ==
    /\ last.op = "encode"
    /\ ~bm25_encoder.corpus_stats_ready
    /\ last.vector = EmptyMap
    /\ ~last.raised

\* C7: build_corpus_statistics with an empty document list does not raise
\* and leaves ready = false with corpus size 0.
C7_EmptyBuildNotReady ==
    (last.op = "build" /\ last.ndocs = 0)
        => /\ ~last.raised
           /\ ~bm25_encoder.corpus_stats_ready
           /\ bm25_encoder.corpus_size = 0

\* the corpus of scenario A
CorpusA == <<T_the_cat_sat, T_the_dog_ran>>

\* encode("cat") has just run on statistics built from the corpus of scenario A
EncodedCatOverA ==
    /\ last.op = "encode"
    /\ last.text = T_cat
    /\ corpus = CorpusA
    /\ bm25_encoder.corpus_size = 2

\* the sparse vector has an entry with a positive score for the term
HasPositiveEntry(vector, term) ==
    /\ term \in DOMAIN bm25_encoder.vocabulary
    /\ bm25_encoder.vocabulary[term] \in DOMAIN vector
    /\ vector[bm25_encoder.vocabulary[term]].sign > 0

\* C8 as stated: after building from ["the cat sat", "the dog ran"],
\* encode("cat") is non-empty, holds the index of "cat" with a positive score
\* and has no entry for the index of "dog".
C8_CatScoresPositive ==
    EncodedCatOverA
        => /\ last.vector # EmptyMap
           /\ HasPositiveEntry(last.vector, W_cat)
           /\ bm25_encoder.vocabulary[W_dog] \notin DOMAIN last.vector

\* C8 amended: after building from ["the cat sat", "the dog ran"], "cat" is
\* in the vocabulary with IDF ln(1.5 / 1.5) = 0, so its score is 0 and
\* encode("cat") is the empty sparse vector, with no entry for "cat" or "dog".
C8_CatScoresZero ==
    EncodedCatOverA
        => /\ W_cat \in DOMAIN bm25_encoder.vocabulary
           /\ W_dog \in DOMAIN bm25_encoder.vocabulary
           /\ SignLog(bm25_encoder.idf[W_cat]) = 0
           /\ last.vector = EmptyMap

C8_Witness ==
    /\ EncodedCatOverA
    /\ bm25_encoder.corpus_stats_ready
    /\ bm25_encoder.doc_freqs[W_cat] = 1
    /\ last.vector = EmptyMap

\* encode(d) has just run on statistics built from the one-document corpus [d]
EncodedOwnCorpus ==
    /\ last.op = "encode"
    /\ last.doc_length = NoLength
    /\ last.text # T_empty
    /\ corpus = <<last.text>>
    /\ bm25_encoder.corpus_size = 1

\* C9 as stated: for every non-empty document d, after building from [d],
\* encode(d) has an entry with a positive score for every distinct term of d.
C9_OwnTermsScorePositive ==
    EncodedOwnCorpus
        => \A term \in Range(TokensOf[last.text]) : HasPositiveEntry(last.vector, term)

\* C9 amended: for every non-empty document d, after building from [d],
\* every distinct term of d is in the vocabulary with df = N = 1 and the
\* negative IDF ln(0.5 / 1.5), so encode(d) has no entry at all.
C9_OwnTermsScoreNegative ==
    EncodedOwnCorpus
        => /\ \A term \in Range(TokensOf[last.text]) :
                 /\ term \in DOMAIN bm25_encoder.vocabulary
                 /\ bm25_encoder.doc_freqs[term] = 1
                 /\ SignLog(bm25_encoder.idf[term]) < 0
           /\ last.vector = EmptyMap

C9_Witness ==
    /\ EncodedOwnCorpus
    /\ bm25_encoder.corpus_stats_ready
    /\ Cardinality(Range(TokensOf[last.text])) = 3
    /\ last.vector = EmptyMap

\* C10: for every search called with the filter subject = "math", every
\* result of the returned outcome has the payload field subject equal to
\* "math", on the hybrid path and on the dense-only path alike.
C10_ResultsCarrySubject ==
    \A c \in Callers :
        (call[c].pc = "done" /\ call[c].subject = "math")
            => \A k \in DOMAIN call[c].outcome.results :
                  /\ "subject" \in DOMAIN call[c].outcome.results[k].payload
                  /\ call[c].outcome.results[k].payload["subject"] = "math"

\* the call of c is a search that has its outcome
Returned(c) == call[c].kind = "search" /\ call[c].pc = "done"

CanStep(c) ==
    \/ call[c].pc \in {"embed", "init", "fetch", "route", "fused", "dense", "done"}
    \/ /\ call[c].pc = "build"
       /\ call[c].documents # <<>> => OrdersFor(call[c].documents) # {}

\* an outcome with its three fields, total_found counting the results
WellFormed(outcome) ==
    /\ DOMAIN outcome = {"results", "total_found", "search_type"}
    /\ outcome.search_type \in {"hybrid", "dense_only", "error"}
    /\ DOMAIN outcome.results = 1..Len(outcome.results)
    /\ outcome.total_found = Len(outcome.results)

\* C12: whatever fails (the embedding provider, the corpus scroll, the
\* statistics build, the store queries), a call of hybrid_search never stops
\* short of its return and never loops (each of its steps runs at most
\* once), no exception propagates to its caller, and what it returns is a
\* well-formed outcome.
C12_AlwaysAnOutcome ==
    \A c \in Searchers :
        /\ call[c].pc # "raised"
        /\ call[c].pc # "idle" => CanStep(c)
        /\ call[c].embeds <= 1 /\ call[c].fetches <= 1 /\ call[c].service_builds <= 1
        /\ call[c].fused_queries <= 1 /\ call[c].dense_queries <= 1
        /\ Returned(c) => WellFormed(call[c].outcome)

\* a search in which the scroll raised, the fused query raised and the
\* dense-only query raised has returned all the same
C12_Witness ==
    \E c \in Searchers :
        /\ Returned(c)
        /\ call[c].store_raised
        /\ call[c].fused_queries = 1
        /\ call[c].dense_queries = 1
        /\ WellFormed(call[c].outcome)

\* the initialization of the call of c did not set the flag: the scroll or
\* the build raised, or the scroll gave no document
InitGaveNothing(c) == call[c].init_failed \/ call[c].documents = <<>>

\* C13: a scroll or a build that fails during a search does not abort it:
\* the flag and the statistics stay not ready and the search returns
\* dense_only; a later search of the client runs the initialization again
\* (flag found unset, one more scroll), returns dense_only when that fails
\* too, and finds the statistics ready, the hybrid path open, as soon as
\* its build succeeds.
C13_FailedInitIsRetried ==
    \A c \in Searchers :
        /\ (Returned(c) /\ call[c].init_failed)
              => /\ call[c].outcome.search_type = "dense_only"
                 /\ call[c].route = "not_ready"
                 /\ ~corpus_initialized
                 /\ ~bm25_encoder.corpus_stats_ready
        /\ (InitReturned(c) /\ call[c].earlier = "failed")
              => /\ call[c].saw_initialized = "no"
                 /\ call[c].fetches = 1
                 /\ InitGaveNothing(c)
                      => /\ ~corpus_initialized
                         /\ Returned(c) => call[c].outcome.search_type = "dense_only"
                 /\ ~InitGaveNothing(c)
                      => /\ call[c].service_builds = 1
                         /\ corpus_initialized
                         /\ bm25_encoder.corpus_stats_ready
                         /\ Returned(c) => call[c].route \in {"hybrid", "empty_sparse"}

\* the second search of a client, after one whose initialization failed, has
\* built the statistics and returned a hybrid outcome
C13_Witness ==
    \E c \in Searchers :
        /\ Returned(c)
        /\ calls_made[c] = 2
        /\ call[c].earlier = "failed"
        /\ call[c].service_builds = 1
        /\ call[c].outcome.search_type = "hybrid"
        /\ call[c].outcome.results # <<>>

\* the call of c found the flag set and skipped the scroll and the build
SkippedInit(c) ==
    /\ call[c].saw_initialized = "yes"
    /\ call[c].fetches = 0
    /\ call[c].service_builds = 0
    /\ corpus_initialized
    /\ bm25_encoder.corpus_stats_ready

\* C14 as stated: once a first call of the initialization has completed,
\* every later call finds the statistics ready and neither scrolls the store
\* nor builds.
C14_LaterCallsSkip ==
    \A c \in Searchers :
        (InitReturned(c) /\ call[c].earlier # "none") => SkippedInit(c)

\* C14 amended: once a call of the initialization that set the flag (its
\* build succeeded) has completed, every later call finds the statistics
\* ready and neither scrolls the store nor builds.
C14_LaterCallsSkipOnceBuilt ==
    \A c \in Searchers :
        (InitReturned(c) /\ call[c].earlier = "initialized") => SkippedInit(c)

C14_Witness ==
    \E c \in Searchers :
        /\ calls_made[c] = 2
        /\ call[c].earlier = "initialized"
        /\ InitReturned(c)
        /\ SkippedInit(c)
        /\ store # {}

\* the terms of a document list
TermsOf(documents) == UNION {Range(TokensOf[documents[k]]) : k \in DOMAIN documents}

\* C15: a second build_corpus_statistics on the same encoder replaces the
\* earlier statistics: the IDF table, the document frequencies and the
\* vocabulary hold only terms of the new document list, and encode gives no
\* entry to a term that occurred in the old corpus only.
C15_RebuildReplaces ==
    builds >= 2
        => LET terms == TermsOf(corpus)
           IN  /\ DOMAIN bm25_encoder.idf \subseteq terms
               /\ DOMAIN bm25_encoder.doc_freqs \subseteq terms
               /\ DOMAIN bm25_encoder.vocabulary \subseteq terms
               /\ last.op = "encode"
                    => \A i \in DOMAIN last.vector :
                          \E t \in terms : bm25_encoder.vocabulary[t] = i

\* C16: a build_corpus_statistics that fails part-way raises to its caller
\* and leaves every field of the encoder (corpus size, document frequencies,
\* IDF, average length, vocabulary, readiness flag) as it was before the call.
C16_FailedBuildLeavesState ==
    [][(last'.op = "build" /\ last'.raised) => bm25_encoder' = bm25_encoder]_vars

\* C17: over any sequence of build_corpus_statistics and encode calls on one
\* encoder, a term that has a vocabulary index keeps exactly that index, the
\* vocabulary never shrinks, and no two terms share an index.
C17_IndicesAreStable ==
    [][/\ \A t \in DOMAIN bm25_encoder.vocabulary :
             /\ t \in DOMAIN bm25_encoder.vocabulary'
             /\ bm25_encoder.vocabulary'[t] = bm25_encoder.vocabulary[t]
       /\ \A t, u \in DOMAIN bm25_encoder.vocabulary' :
             bm25_encoder.vocabulary'[t] = bm25_encoder.vocabulary'[u] => t = u]_vars

\* a build over cat documents, then a build over ["the dog ran"]: the terms
\* of the first keep the indices 0..2, those new in the second got 3 and 4
C17_Witness ==
    /\ builds = 2
    /\ corpus = <<T_the_dog_ran>>
    /\ DOMAIN bm25_encoder.vocabulary = {W_the, W_cat, W_sat, W_dog, W_ran}
    /\ {bm25_encoder.vocabulary[t] : t \in {W_the, W_cat, W_sat}} = {0, 1, 2}
    /\ {bm25_encoder.vocabulary[t] : t \in {W_dog, W_ran}} = {3, 4}

\* C18: every entry of every sparse vector encode returns has a weight
\* strictly greater than zero and, as key, the vocabulary index of a token of
\* the input text; a token that is not in the vocabulary gives no entry and
\* no error.
C18_EntriesArePositive ==
    last.op = "encode"
        => /\ ~last.raised
           /\ \A i \in DOMAIN last.vector :
                 /\ last.vector[i].sign > 0
                 /\ \E t \in Range(TokensOf[last.text]) :
                       /\ t \in DOMAIN bm25_encoder.vocabulary
                       /\ bm25_encoder.vocabulary[t] = i

\* encode("Cat, cat! emu") over a corpus that knows "cat" and not "emu" gave
\* the one entry of "cat"
C18_Witness ==
    /\ last.op = "encode"
    /\ last.text = T_Cat_cat_emu
    /\ W_emu \notin DOMAIN bm25_encoder.vocabulary
    /\ W_cat \in DOMAIN bm25_encoder.vocabulary
    /\ DOMAIN last.vector = {bm25_encoder.vocabulary[W_cat]}
    /\ last.vector[bm25_encoder.vocabulary[W_cat]].tf = 2

\* ln(a[1] / a[2]) >= ln(b[1] / b[2])
IdfGeq(a, b) == a[1] * b[2] >= b[1] * a[2]

\* C19: in the statistics of one build (a fixed corpus size N), of two terms
\* with document frequencies df1 <= df2, both between 1 and N, the first has
\* an IDF at least as large as the second.
C19_IdfIsMonotone ==
    (last.op = "build" /\ ~last.raised)
        => \A t1, t2 \in DOMAIN bm25_encoder.doc_freqs :
              /\ bm25_encoder.doc_freqs[t1] \in 1..bm25_encoder.corpus_size
              /\ bm25_encoder.doc_freqs[t1] <= bm25_encoder.doc_freqs[t2]
                   => IdfGeq(bm25_encoder.idf[t1], bm25_encoder.idf[t2])

\* a build over three documents in which "dog" is in one, "cat" in two and
\* "the" in all three, with three different IDF values
C19_Witness ==
    /\ last.op = "build"
    /\ bm25_encoder.corpus_size = 3
    /\ {W_the, W_cat, W_dog} \subseteq DOMAIN bm25_encoder.doc_freqs
    /\ bm25_encoder.doc_freqs[W_dog] = 1
    /\ bm25_encoder.doc_freqs[W_cat] = 2
    /\ bm25_encoder.doc_freqs[W_the] = 3
    /\ ~IdfGeq(bm25_encoder.idf[W_cat], bm25_encoder.idf[W_dog])
    /\ ~IdfGeq(bm25_encoder.idf[W_the], bm25_encoder.idf[W_cat])

\* C20: no result of an outcome hybrid_search returns has a score below the
\* score_threshold of the call, be the outcome hybrid or dense_only; a search
\* that got its dense vector and whose matches are all below the threshold
\* returns an empty list under a tag that is not error.
C20_NoResultBelowThreshold ==
    \A c \in Callers :
        Returned(c)
            => /\ \A k \in DOMAIN call[c].outcome.results :
                     call[c].outcome.results[k].score >= call[c].score_threshold
               /\ call[c].dense_vector = "vector"
                    => call[c].outcome.search_type \in {"hybrid", "dense_only"}
               /\ (call[c].outcome.search_type = "dense_only" /\ DenseMatches(c) = {})
                    => call[c].outcome.results = <<>>

\* a hybrid search with threshold 0.6 and limit 2 over three points kept the
\* one point both legs rank first and dropped the others
C20_Witness ==
    \E c \in Callers :
        /\ Returned(c)
        /\ call[c].outcome.search_type = "hybrid"
        /\ call[c].score_threshold = 600
        /\ call[c].limit = 2
        /\ store = {1, 2, 3}
        /\ call[c].subject = NoneStr /\ call[c].week = NoneStr
        /\ Len(call[c].outcome.results) = 1
        /\ call[c].outcome.results[1].score >= 600

\* a dense-only search with threshold 0.6 over a store whose one point scores
\* 0.4 returned an empty list tagged dense_only
C20_WitnessEmpty ==
    \E c \in Callers :
        /\ Returned(c)
        /\ call[c].outcome.search_type = "dense_only"
        /\ call[c].score_threshold = 600
        /\ store = {3}
        /\ ~call[c].store_raised
        /\ call[c].subject = NoneStr /\ call[c].week = NoneStr
        /\ call[c].outcome.results = <<>>

\* C21: a returned call that took the hybrid path and whose fused query did
\* not raise has issued exactly one fused query and no dense query; both
\* legs of that query ask for limit * 2 candidates under the same filter,
\* the filter built from the call's subject, title and week; the fusion is
\* reciprocal-rank and the final limit is the call's limit; the outcome is
\* tagged hybrid and holds at most limit results
C21_OneFusedQuery ==
    \A c \in Searchers :
        (Returned(c) /\ call[c].route = "hybrid" /\ ~call[c].store_raised) =>
            LET q == call[c].fused_query
                f == must_conditions(call[c].subject, call[c].title, call[c].week)
            IN  /\ call[c].fused_queries = 1
                /\ call[c].dense_queries = 0
                /\ q.prefetch.sparse.using = "bm25_sparse_vector"
                /\ q.prefetch.dense.using = "dense_vector"
                /\ q.prefetch.sparse.limit = call[c].limit * 2
                /\ q.prefetch.dense.limit = call[c].limit * 2
                /\ q.prefetch.sparse.filter = f
                /\ q.prefetch.dense.filter = f
                /\ q.fusion = "rrf"
                /\ q.limit = call[c].limit
                /\ call[c].outcome.search_type = "hybrid"
                /\ Len(call[c].outcome.results) <= call[c].limit
                /\ \A k \in DOMAIN call[c].outcome.results :
                       Matches(call[c].outcome.results[k].id, f)

\* a hybrid call with a subject filter returned as many results as its limit
C21_Witness ==
    \E c \in Searchers :
        /\ Returned(c) /\ call[c].route = "hybrid" /\ ~call[c].store_raised
        /\ call[c].subject = "math"
        /\ call[c].fused_queries = 1
        /\ Len(call[c].outcome.results) = call[c].limit

\* C22: a returned call that took the dense-only path, with the store
\* answering, has sent the store exactly one dense search, and its results
\* are the best `limit` of the points that satisfy the supplied
\* subject/title/week and score at or above the threshold
C22_DenseQueryIsFiltered ==
    \A c \in Searchers :
        (/\ Returned(c)
         /\ call[c].route \in {"not_ready", "empty_sparse"}
         /\ ~call[c].store_raised)
            => LET expected == Take(Ranked(DenseMatches(c), DenseScore), call[c].limit)
                   results == call[c].outcome.results
               IN  /\ call[c].dense_queries = 1
                   /\ call[c].store_searches = 1
                   /\ Len(results) = Len(expected)
                   /\ \A k \in DOMAIN results : results[k].id = expected[k]

\* the fused query of the call of c raised: only then does a call on the
\* hybrid path have a failed store query
FusedFailed(c) == call[c].route = "hybrid" /\ call[c].store_raised

\* C23: a search whose fused query raised goes on to the dense-only query
\* and, once returned, has issued exactly one fused and one dense-only
\* query; its outcome is the one _dense_only_search gives for the call's own
\* limit, threshold and filters, tagged dense_only, never error
C23_FusedFailureFallsBack ==
    \A c \in Searchers :
        FusedFailed(c) =>
            /\ call[c].pc \in {"dense", "done"}
            /\ call[c].fused_queries = 1
            /\ call[c].pc = "dense" => call[c].dense_queries = 0
            /\ call[c].pc = "done" =>
                /\ call[c].dense_queries = 1
                /\ call[c].outcome.search_type = "dense_only"
                /\ \E dense_raises \in BOOLEAN :
                       call[c].outcome =
                           dense_only_search(store, call[c].limit,
                               call[c].score_threshold, call[c].subject,
                               call[c].title, call[c].week, dense_raises)

\* a search whose fused query raised returned the points of its dense query
C23_Witness ==
    \E c \in Searchers :
        /\ FusedFailed(c) /\ call[c].pc = "done"
        /\ call[c].outcome.search_type = "dense_only"
        /\ call[c].outcome.results # <<>>

\* the step is one of a call that read _corpus_initialized as False at line
\* 19: a call that raced with the initialization, not one made after it
RacingStep ==
    \E c \in Callers : call[c].saw_initialized = "no" /\ call'[c] # call[c]

\* C24: once _corpus_initialized is set, it stays set, and no step changes
\* the encoder (vocabulary, idf, doc_freqs, corpus_size, avgdl,
\* corpus_stats_ready): not a step of a search or of an initialization that
\* started afterwards, and not an upsert or a delete on the store
C24_StatisticsAreFrozen ==
    [][(corpus_initialized /\ ~RacingStep)
          => /\ corpus_initialized'
             /\ bm25_encoder' = bm25_encoder]_vars

\* a second search returned on the hybrid path although the store no longer
\* holds the documents the statistics were built from
C24_Witness ==
    \E c \in Searchers :
        /\ Returned(c) /\ calls_made[c] >= 2
        /\ call[c].earlier = "initialized"
        /\ call[c].saw_initialized = "yes"
        /\ call[c].route = "hybrid"
        /\ corpus # <<>>
        /\ CorpusOf(store) # corpus

\* C25: at every point of a hybrid_search call the embedding provider has
\* been called at most once, the fused query issued at most once and the
\* dense-only query issued at most once
C25_NothingIsRetried ==
    \A c \in Searchers :
        call[c].kind = "search" =>
            /\ call[c].embeds <= 1
            /\ call[c].fused_queries <= 1
            /\ call[c].dense_queries <= 1
            /\ call[c].store_searches <= 1

\* a returned search that made every one of its upstream calls once, the
\* fused query and the dense query both failing
C25_Witness ==
    \E c \in Searchers :
        /\ Returned(c)
        /\ call[c].embeds = 1
        /\ call[c].fused_queries = 1
        /\ call[c].dense_queries = 1
        /\ call[c].store_searches = 1
        /\ call[c].outcome.results = <<>>
        /\ DenseMatches(c) # {}

\* the terms of `text` that the encoder knows with a positive idf
PositiveTerms(text) ==
    {t \in Range(TokensOf[text]) :
        /\ t \in DOMAIN bm25_encoder.idf
        /\ t \in DOMAIN bm25_encoder.vocabulary
        /\ SignLog(bm25_encoder.idf[t]) > 0}

\* C26: an encode on a ready encoder whose average document length is 0
\* gives an entry, with a positive value, to every term of the text that is
\* in the vocabulary with a positive idf, and to no other term
C26_ZeroAverageLength ==
    (/\ last.op = "encode"
     /\ last.text # None
     /\ bm25_encoder.corpus_stats_ready
     /\ bm25_encoder.avgdl[1] = 0)
        => /\ DOMAIN last.vector =
                {bm25_encoder.vocabulary[t] : t \in PositiveTerms(last.text)}
           /\ \A i \in DOMAIN last.vector : last.vector[i].sign > 0

\* the stored point a result of the endpoint stands for
ResultPoint(search_type, result) ==
    IF search_type = "hybrid"
    THEN CHOOSE id \in Points : Str(id) = result.id
    ELSE result.id

\* C27: a response of /hybrid-search-with-vectors is tagged hybrid exactly
\* when the request's sparse vector is not empty and dense_only otherwise,
\* and every result it holds satisfies the subject, title and week of the
\* request
C27_VectorsEndpointFilters ==
    \A c \in Searchers :
        (call[c].kind = "vectors" /\ call[c].pc = "done" /\ call[c].http_status = 200)
            => LET body == call[c].outcome
               IN  /\ (body.search_type = "hybrid") <=> (call[c].sparse_vector # EmptyMap)
                   /\ (body.search_type = "dense_only") <=> (call[c].sparse_vector = EmptyMap)
                   /\ \A k \in DOMAIN body.results :
                         Matches(ResultPoint(body.search_type, body.results[k]),
                                 must_conditions(call[c].subject, call[c].title,
                                                 call[c].week))

\* C28: the vocabulary a fresh encoder has after building from a document
\* list is the vocabulary every other fresh encoder gets from the same list,
\* whatever order the sets of distinct tokens are iterated in
C28_VocabularyIsDeterministic ==
    (builds = 1 /\ last.op = "build" /\ ~last.raised)
        => \A order \in ItemOrders(corpus, Len(corpus), {}) :
              build_corpus_statistics(NewEncoder, corpus, order).enc.vocabulary
                  = bm25_encoder.vocabulary

\* C29: an encode on a ready encoder leaves vocabulary, idf, doc_freqs,
\* corpus_size, avgdl and corpus_stats_ready as they were, for every text
\* and doc_length, so that the same encode made once more gives the same
\* vector
C29_EncodeIsReadOnly ==
    [][(EncodeStep /\ bm25_encoder.corpus_stats_ready)
          => /\ bm25_encoder' = bm25_encoder
             /\ encode(bm25_encoder', last'.text, last'.doc_length).vector
                    = last'.vector]_vars

\* an encode with a given doc_length, of a text with a term the encoder
\* does not know, returned an entry from a ready encoder
C29_Witness ==
    /\ last.op = "encode"
    /\ last.text = T_Cat_cat_emu
    /\ last.doc_length = <<4>>
    /\ bm25_encoder.corpus_stats_ready
    /\ W_emu \notin DOMAIN bm25_encoder.vocabulary
    /\ last.vector # EmptyMap

\* C30: in the outcome of every returned hybrid_search call total_found is
\* the number of entries of results, and an outcome tagged error has no
\* result and total_found = 0
C30_TotalFoundCountsResults ==
    \A c \in Searchers :
        Returned(c) =>
            /\ call[c].outcome.total_found = Len(call[c].outcome.results)
            /\ call[c].outcome.search_type = "error" =>
                  /\ call[c].outcome.results = <<>>
                  /\ call[c].outcome.total_found = 0

\* a hybrid search whose threshold dropped a point of the fused query
\* reports the one result it kept
C30_Witness ==
    \E c \in Searchers :
        /\ Returned(c)
        /\ call[c].outcome.search_type = "hybrid"
        /\ call[c].score_threshold = 600
        /\ call[c].limit = 2
        /\ Len(client_query_points(store, call[c].sparse_vector,
                                   bm25_encoder.vocabulary, call[c].fused_query)) = 2
        /\ call[c].outcome.total_found = 1
        /\ Len(call[c].outcome.results) = 1

====
